---- MODULE Spec2Model ----
(***************************************************************************)
(* Model of src/inference.py: the command-line driver of the talking-face  *)
(* pipeline.  Each run is one process executing main(); runs share the      *)
(* file system and the wall clock.  The external model library is an        *)
(* environment whose calls either return or raise.                          *)
(*                                                                          *)
(* Assumptions of the model: the two os.makedirs calls and the manifest     *)
(* write that sit outside every try block have no failure other than the    *)
(* ones os.makedirs itself defines (a path that exists); the render stage   *)
(* writes its video inside the run directory it is given and leaves no      *)
(* file behind when it raises.                                              *)
(***************************************************************************)
EXTENDS Integers, Sequences, FiniteSets, TLC

\* ------------------------------------------------------------- bounds
\* The wall clock runs over the seconds 0..MaxTime.
MaxTime == 1
\* A rendered video is at most MaxVideoLen bytes long.
MaxVideoLen == 3

\* The concurrent (or repeated) invocations of the script.
Runs == {1, 2}
\* Byte values a rendered video is made of.
ByteVals == {77, 255}

RECURSIVE SeqsUpTo(_, _)
SeqsUpTo(S, n) ==
    IF n = 0 THEN {<<>>}
    ELSE LET shorter == SeqsUpTo(S, n - 1)
         IN  shorter \cup {Append(s, x) : s \in {q \in shorter : Len(q) = n - 1}, x \in S}

VideoContents == SeqsUpTo(ByteVals, MaxVideoLen)

\* ------------------------------------------------------------- paths
\* A path is the sequence of its components.
Join(dir, name) == Append(dir, name)

AudioPaths == {<<"input_audio.wav">>, <<"missing_audio.wav">>}
ImagePaths == {<<"sadtalker_default.jpeg">>, <<"missing_image.jpeg">>}
OutputDirs == {<<"output">>}

\* The files present before any run starts.
InitialFiles == {<<"input_audio.wav">>, <<"sadtalker_default.jpeg">>}

\* strftime at second granularity, in the two formats the script uses.
DirStamps ==
    <<"2026_11_01_12.00.00", "2026_11_01_12.00.01", "2026_11_01_12.00.02",
      "2026_11_01_12.00.03", "2026_11_01_12.00.04">>
InfoStamps ==
    <<"2026-11-01 12:00:00", "2026-11-01 12:00:01", "2026-11-01 12:00:02",
      "2026-11-01 12:00:03", "2026-11-01 12:00:04">>
strftime_dir(t) == DirStamps[t + 1]
strftime_info(t) == InfoStamps[t + 1]

\* ------------------------------------------------------------- base64
Alphabet ==
    <<"A","B","C","D","E","F","G","H","I","J","K","L","M","N","O","P",
      "Q","R","S","T","U","V","W","X","Y","Z","a","b","c","d","e","f",
      "g","h","i","j","k","l","m","n","o","p","q","r","s","t","u","v",
      "w","x","y","z","0","1","2","3","4","5","6","7","8","9","+","/">>
PadChar == "="

Sextet(i) == Alphabet[i + 1]
SextetIndex(c) == (CHOOSE i \in 1..64 : Alphabet[i] = c) - 1

\* base64.b64encode(bytes).decode("utf-8"): every 3 bytes give 4 characters,
\* a final group of 1 or 2 bytes is padded with "=".
RECURSIVE b64encode(_)
b64encode(bytes) ==
    IF Len(bytes) = 0 THEN <<>>
    ELSE IF Len(bytes) = 1 THEN
        <<Sextet(bytes[1] \div 4), Sextet((bytes[1] % 4) * 16), PadChar, PadChar>>
    ELSE IF Len(bytes) = 2 THEN
        <<Sextet(bytes[1] \div 4),
          Sextet((bytes[1] % 4) * 16 + bytes[2] \div 16),
          Sextet((bytes[2] % 16) * 4), PadChar>>
    ELSE
        <<Sextet(bytes[1] \div 4),
          Sextet((bytes[1] % 4) * 16 + bytes[2] \div 16),
          Sextet((bytes[2] % 16) * 4 + bytes[3] \div 64),
          Sextet(bytes[3] % 64)>> \o b64encode(SubSeq(bytes, 4, Len(bytes)))

\* base64.b64decode(text): every 4 characters give 3 bytes, fewer where the
\* group ends in padding.
RECURSIVE b64decode(_)
b64decode(text) ==
    IF Len(text) < 4 THEN <<>>
    ELSE LET a == SextetIndex(text[1])
             b == SextetIndex(text[2])
             rest == b64decode(SubSeq(text, 5, Len(text)))
         IN  IF text[3] = PadChar THEN <<a * 4 + b \div 16>> \o rest
             ELSE LET c == SextetIndex(text[3])
                  IN  IF text[4] = PadChar
                      THEN <<a * 4 + b \div 16, (b % 16) * 16 + c \div 4>> \o rest
                      ELSE <<a * 4 + b \div 16, (b % 16) * 16 + c \div 4,
                             (c % 4) * 64 + SextetIndex(text[4])>> \o rest

\* ------------------------------------------------------------- state
VARIABLES
    clock,        \* the wall clock, in seconds
    dirs,         \* the directories of the file system
    files,        \* the files of the file system: path -> content
    pc,           \* each run's position in main() / run_inference()
    args,         \* each run's parsed request (parse_args)
    init_outcome, \* what the model library did inside initialize_models
    handles,      \* the five handles run_inference received
    save_dir,     \* run_inference's save_dir (<<>> before it is set)
    stamp,        \* the second at which save_dir was named (-1 before)
    calls,        \* the calls made into the model library, in order
    video_path,   \* the path generate_deploy returned (<<>> before)
    video_bytes,  \* the bytes file.read() returned at line 118
    result,       \* run_inference's result dictionary
    returned,     \* what run_inference returned to main()
    outcome,      \* how the run ended
    exit_code,    \* the exit code of the process (-1 while running)
    mkdirs,       \* the directories each run passed to os.makedirs
    wrote         \* the files each run wrote: path -> content

vars == <<clock, dirs, files, pc, args, init_outcome, handles, save_dir, stamp,
          calls, video_path, video_bytes, result, returned, outcome, exit_code, mkdirs,
          wrote>>

NoPath == <<>>
NoArgs == [audio_path |-> NoPath, image_path |-> NoPath, output_dir |-> NoPath,
           save_base64 |-> FALSE]
\* The tuple (None, None, None, None, None).
NoHandles == <<FALSE, FALSE, FALSE, FALSE, FALSE>>
AllHandles == <<TRUE, TRUE, TRUE, TRUE, TRUE>>
\* The dictionary before line 113 builds it, and the None run_inference returns.
NoResult == [present |-> FALSE, video_path |-> NoPath, has_base64 |-> FALSE,
             video_base64 |-> <<>>]
EmptyMap == [p \in {} |-> <<>>]

\* What the model library can do inside initialize_models: import and build
\* the models; fail to import; fail otherwise (a checkpoint that is missing
\* makes a constructor raise an error that is no ImportError).
InitOutcomes == {"ok", "ImportError", "OtherError"}

Stages == <<"preprocess", "get_data", "audio_to_coeff", "get_facerender_data",
            "generate_deploy">>

Init ==
    /\ clock = 0
    /\ dirs = {}
    /\ files = [p \in InitialFiles |-> <<>>]
    /\ pc = [r \in Runs |-> "start"]
    /\ args = [r \in Runs |-> NoArgs]
    /\ init_outcome = [r \in Runs |-> "pending"]
    /\ handles = [r \in Runs |-> NoHandles]
    /\ save_dir = [r \in Runs |-> NoPath]
    /\ stamp = [r \in Runs |-> -1]
    /\ calls = [r \in Runs |-> <<>>]
    /\ video_path = [r \in Runs |-> NoPath]
    /\ video_bytes = [r \in Runs |-> <<>>]
    /\ result = [r \in Runs |-> NoResult]
    /\ returned = [r \in Runs |-> NoResult]
    /\ outcome = [r \in Runs |-> "running"]
    /\ exit_code = [r \in Runs |-> -1]
    /\ mkdirs = [r \in Runs |-> {}]
    /\ wrote = [r \in Runs |-> EmptyMap]

\* ------------------------------------------------------------- helpers
\* os.path.exists
path_exists(p) == p \in dirs \/ p \in DOMAIN files

\* os.makedirs(p, exist_ok=...) raises when p is a file, or when p is a
\* directory and exist_ok is false.
makedirs_raises(p, exist_ok) ==
    \/ p \in DOMAIN files
    \/ (p \in dirs /\ ~exist_ok)

\* open(p, "w").write(content)
WriteFile(fs, p, content) == (p :> content) @@ fs

\* A variant of inputs_exist that forgets the image check.
inputs_exist_audio_only(a) == path_exists(a.audio_path)

\* main(), lines 143-151: both input files must exist.
inputs_exist(a) == path_exists(a.audio_path) /\ path_exists(a.image_path)

\* A variant of all_handles that checks nothing.
all_handles_unchecked(h) == TRUE

\* run_inference, line 73: all([...]) over the five handles.
all_handles(h) == h[1] /\ h[2] /\ h[3] /\ h[4] /\ h[5]

\* initialize_models, lines 37-65: the tuple it returns, and whether the
\* failure leaves it as an exception instead.
initialize_models_raises(o) == o \notin {"ok", "ImportError"}
initialize_models(o) == IF o = "ok" THEN AllHandles ELSE NoHandles

\* A variant of main_exit_code without the sys.exit(1) of line 176.
main_exit_code_always_zero(res) == 0

\* main(), lines 159-176: the exit code main() ends with for a result.
main_exit_code(res) == IF res.present THEN 0 ELSE 1

\* The end of a process: an exit code and the way the run ended.
Exit(r, code, how) ==
    /\ pc' = [pc EXCEPT ![r] = "exited"]
    /\ exit_code' = [exit_code EXCEPT ![r] = code]
    /\ outcome' = [outcome EXCEPT ![r] = how]

\* run_inference's except clause (lines 129-131) followed by main's else
\* branch (lines 174-176).
StageFailed(r) == Exit(r, main_exit_code(NoResult), "PipelineStageFailure")

\* ------------------------------------------------------------- actions
\* parse_args (lines 19-33, 135): the request of the run.
ParseArgs(r) ==
    /\ pc[r] = "start"
    /\ \E a \in AudioPaths, i \in ImagePaths, o \in OutputDirs, b \in BOOLEAN :
         args' = [args EXCEPT ![r] = [audio_path |-> a, image_path |-> i,
                                      output_dir |-> o, save_base64 |-> b]]
    /\ pc' = [pc EXCEPT ![r] = "validate"]
    /\ UNCHANGED <<clock, dirs, files, init_outcome, handles, save_dir, stamp, calls,
                   video_path, video_bytes, result, returned, outcome, exit_code, mkdirs, wrote>>

\* main(), lines 143-154: return when an input file is missing, else make
\* sure the output directory exists.
Validate(r) ==
    /\ pc[r] = "validate"
    /\ IF ~inputs_exist(args[r])
       THEN /\ Exit(r, 0, "MissingInputFile")
            /\ UNCHANGED <<dirs, mkdirs>>
       ELSE IF makedirs_raises(args[r].output_dir, TRUE)
       THEN /\ Exit(r, 1, "UncaughtException")
            /\ mkdirs' = [mkdirs EXCEPT ![r] = @ \cup {args[r].output_dir}]
            /\ UNCHANGED dirs
       ELSE /\ dirs' = dirs \cup {args[r].output_dir}
            /\ mkdirs' = [mkdirs EXCEPT ![r] = @ \cup {args[r].output_dir}]
            /\ pc' = [pc EXCEPT ![r] = "initialize"]
            /\ UNCHANGED <<outcome, exit_code>>
    /\ UNCHANGED <<clock, files, args, init_outcome, handles, save_dir, stamp, calls,
                   video_path, video_bytes, result, returned, wrote>>

\* run_inference, lines 70-75, with initialize_models (lines 35-65): build the
\* models and return None when a handle is missing.  An exception that
\* initialize_models does not catch leaves run_inference and main().
Initialize(r) ==
    /\ pc[r] = "initialize"
    /\ \E o \in InitOutcomes :
         /\ init_outcome' = [init_outcome EXCEPT ![r] = o]
         /\ calls' = [calls EXCEPT ![r] = Append(@, "initialize_models")]
         /\ IF initialize_models_raises(o)
            THEN /\ Exit(r, 1, "UncaughtException")
                 /\ UNCHANGED handles
            ELSE /\ handles' = [handles EXCEPT ![r] = initialize_models(o)]
                 /\ IF all_handles(initialize_models(o))
                    THEN /\ pc' = [pc EXCEPT ![r] = "mk_save_dir"]
                         /\ UNCHANGED <<outcome, exit_code>>
                    ELSE Exit(r, main_exit_code(NoResult), "ModelInitializationFailure")
    /\ UNCHANGED <<clock, dirs, files, args, save_dir, stamp, video_path, video_bytes, result,
                   returned, mkdirs, wrote>>

\* A variant of save_dir_exist_ok: os.makedirs called without exist_ok.
save_dir_exist_ok_omitted == FALSE

\* run_inference, line 79: the exist_ok argument of the run directory's
\* os.makedirs.
save_dir_exist_ok == TRUE

\* run_inference, lines 77-79: name the run directory after the current
\* second and create it.
MakeSaveDir(r) ==
    /\ pc[r] = "mk_save_dir"
    /\ LET d == Join(args[r].output_dir, strftime_dir(clock))
       IN  /\ save_dir' = [save_dir EXCEPT ![r] = d]
           /\ stamp' = [stamp EXCEPT ![r] = clock]
           /\ mkdirs' = [mkdirs EXCEPT ![r] = @ \cup {d}]
           /\ IF makedirs_raises(d, save_dir_exist_ok)
              THEN /\ Exit(r, 1, "UncaughtException")
                   /\ UNCHANGED dirs
              ELSE /\ dirs' = dirs \cup {d}
                   /\ pc' = [pc EXCEPT ![r] = "preprocess"]
                   /\ UNCHANGED <<outcome, exit_code>>
    /\ UNCHANGED <<clock, files, args, init_outcome, handles, calls, video_path, video_bytes,
                   result, returned, wrote>>

\* A variant of StageCall that calls the stage again when it raises.
StageCall_retry(r, name, next) ==
    /\ calls' = [calls EXCEPT ![r] = Append(@, name)]
    /\ \E ok \in BOOLEAN :
         /\ pc' = [pc EXCEPT ![r] = IF ok THEN next ELSE @]
         /\ UNCHANGED <<outcome, exit_code>>

\* One call into the model library that writes nothing the script reads:
\* it returns, and the run moves on, or it raises.
StageCall(r, name, next) ==
    /\ calls' = [calls EXCEPT ![r] = Append(@, name)]
    /\ \E ok \in BOOLEAN :
         IF ok THEN /\ pc' = [pc EXCEPT ![r] = next]
                    /\ UNCHANGED <<outcome, exit_code>>
               ELSE StageFailed(r)

\* run_inference, lines 82-88: create first_frame_dir and preprocess the image.
Preprocess(r) ==
    /\ pc[r] = "preprocess"
    /\ LET d == Join(save_dir[r], "first_frame_dir")
       IN  /\ mkdirs' = [mkdirs EXCEPT ![r] = @ \cup {d}]
           /\ IF makedirs_raises(d, TRUE)
              THEN /\ StageFailed(r)
                   /\ UNCHANGED <<dirs, calls>>
              ELSE /\ dirs' = dirs \cup {d}
                   /\ StageCall(r, "preprocess", "get_data")
    /\ UNCHANGED <<clock, files, args, init_outcome, handles, save_dir, stamp,
                   video_path, video_bytes, result, returned, wrote>>

\* run_inference, line 94: build the audio batch.
GetData(r) ==
    /\ pc[r] = "get_data"
    /\ StageCall(r, "get_data", "audio_to_coeff")
    /\ UNCHANGED <<clock, dirs, files, args, init_outcome, handles, save_dir, stamp,
                   video_path, video_bytes, result, returned, mkdirs, wrote>>

\* run_inference, line 95: audio to coefficients.
AudioToCoeff(r) ==
    /\ pc[r] = "audio_to_coeff"
    /\ StageCall(r, "audio_to_coeff", "get_facerender_data")
    /\ UNCHANGED <<clock, dirs, files, args, init_outcome, handles, save_dir, stamp,
                   video_path, video_bytes, result, returned, mkdirs, wrote>>

\* run_inference, lines 99-103: build the render batch.
GetFacerenderData(r) ==
    /\ pc[r] = "get_facerender_data"
    /\ StageCall(r, "get_facerender_data", "generate_deploy")
    /\ UNCHANGED <<clock, dirs, files, args, init_outcome, handles, save_dir, stamp,
                   video_path, video_bytes, result, returned, mkdirs, wrote>>

\* Where the run goes once the video is rendered (line 115).
after_render(a) == IF a.save_base64 THEN "read_video" ELSE "publish"

\* run_inference, lines 105-113: render the video into the run directory and
\* start the result dictionary with its path.
GenerateDeploy(r) ==
    /\ pc[r] = "generate_deploy"
    /\ calls' = [calls EXCEPT ![r] = Append(@, "generate_deploy")]
    /\ \/ /\ StageFailed(r)
          /\ UNCHANGED <<files, video_path, result, wrote>>
       \/ \E content \in VideoContents :
            LET p == Join(save_dir[r], "video.mp4")
            IN  /\ files' = WriteFile(files, p, content)
                /\ wrote' = [wrote EXCEPT ![r] = WriteFile(@, p, content)]
                /\ video_path' = [video_path EXCEPT ![r] = p]
                /\ result' = [result EXCEPT ![r] =
                                [present |-> TRUE, video_path |-> p,
                                 has_base64 |-> FALSE, video_base64 |-> <<>>]]
                /\ pc' = [pc EXCEPT ![r] = after_render(args[r])]
                /\ UNCHANGED <<outcome, exit_code>>
    /\ UNCHANGED <<clock, dirs, args, init_outcome, handles, save_dir, stamp,
                   video_bytes, returned, mkdirs>>

\* A variant of encode_video that leaves the padding out.
encode_video_unpadded(bytes) == SelectSeq(b64encode(bytes), LAMBDA c : c /= PadChar)

\* run_inference, lines 116-119: read the video file and encode it.
encode_video(bytes) == b64encode(bytes)

ReadVideo(r) ==
    /\ pc[r] = "read_video"
    /\ \/ /\ StageFailed(r)
          /\ UNCHANGED <<result, video_bytes>>
       \/ /\ video_path[r] \in DOMAIN files
          /\ video_bytes' = [video_bytes EXCEPT ![r] = files[video_path[r]]]
          /\ result' = [result EXCEPT ![r].has_base64 = TRUE,
                                      ![r].video_base64 = encode_video(files[video_path[r]])]
          /\ pc' = [pc EXCEPT ![r] = "write_base64"]
          /\ UNCHANGED <<outcome, exit_code>>
    /\ UNCHANGED <<clock, dirs, files, args, init_outcome, handles, save_dir, stamp,
                   calls, video_path, returned, mkdirs, wrote>>

\* run_inference, lines 121-125: write the encoded video beside it.
base64_path(dir) == Join(dir, "video_base64.txt")

WriteBase64(r) ==
    /\ pc[r] = "write_base64"
    /\ \/ /\ StageFailed(r)
          /\ UNCHANGED <<files, wrote>>
       \/ LET p == base64_path(save_dir[r])
          IN  /\ files' = WriteFile(files, p, result[r].video_base64)
              /\ wrote' = [wrote EXCEPT ![r] = WriteFile(@, p, result[r].video_base64)]
              /\ pc' = [pc EXCEPT ![r] = "publish"]
              /\ UNCHANGED <<outcome, exit_code>>
    /\ UNCHANGED <<clock, dirs, args, init_outcome, handles, save_dir, stamp, calls,
                   video_path, video_bytes, result, returned, mkdirs>>

\* A variant of manifest that records the run directory for the video.
manifest_with_dir(a, res, now) ==
    [audio_path |-> a.audio_path, image_path |-> a.image_path,
     video_path |-> SubSeq(res.video_path, 1, Len(res.video_path) - 1),
     timestamp |-> strftime_info(now)]

\* main(), lines 164-171: where the manifest goes and what it holds.
info_path(a) == Join(a.output_dir, "inference_info.json")
manifest(a, res, now) ==
    [audio_path |-> a.audio_path, image_path |-> a.image_path,
     video_path |-> res.video_path, timestamp |-> strftime_info(now)]

\* run_inference, line 127, and main(), lines 157-173: return the result,
\* write the manifest, end.
Publish(r) ==
    /\ pc[r] = "publish"
    /\ returned' = [returned EXCEPT ![r] = result[r]]
    /\ LET p == info_path(args[r])
           m == manifest(args[r], result[r], clock)
       IN  /\ files' = WriteFile(files, p, m)
           /\ wrote' = [wrote EXCEPT ![r] = WriteFile(@, p, m)]
    /\ Exit(r, main_exit_code(result[r]), "Done")
    /\ UNCHANGED <<clock, dirs, args, init_outcome, handles, save_dir, stamp, calls,
                   video_path, video_bytes, result, mkdirs>>

\* A second passes.
Tick ==
    /\ clock < MaxTime
    /\ clock' = clock + 1
    /\ UNCHANGED <<dirs, files, pc, args, init_outcome, handles, save_dir, stamp, calls,
                   video_path, video_bytes, result, returned, outcome, exit_code, mkdirs, wrote>>

Next ==
    \/ Tick
    \/ \E r \in Runs :
         \/ ParseArgs(r)
         \/ Validate(r)
         \/ Initialize(r)
         \/ MakeSaveDir(r)
         \/ Preprocess(r)
         \/ GetData(r)
         \/ AudioToCoeff(r)
         \/ GetFacerenderData(r)
         \/ GenerateDeploy(r)
         \/ ReadVideo(r)
         \/ WriteBase64(r)
         \/ Publish(r)

Spec == Init /\ [][Next]_vars

\* ------------------------------------------------------------- properties
Exited(r) == pc[r] = "exited"
Requested(r) == pc[r] /= "start"
InfoFile(r) == Join(args[r].output_dir, "inference_info.json")
Sidecar(r) == Join(save_dir[r], "video_base64.txt")
\* The calls a run makes up to and including a given stage.
FullCalls == <<"initialize_models">> \o Stages
IsPrefix(s, t) == Len(s) <= Len(t) /\ SubSeq(t, 1, Len(s)) = s
StageCalls(r) == SelectSeq(calls[r], LAMBDA c : c /= "initialize_models")
\* The directories a run asked for below its output directory.
RunDirs(r) == {d \in mkdirs[r] : Len(d) = Len(args[r].output_dir) + 1}
Stamped(r) == stamp[r] /= -1

\* C1: a request whose audio path or image path does not exist is aborted
\* before any other effect: initialize_models is not called, the run asks for
\* no directory (neither output_dir nor a run directory) and writes no file,
\* the manifest included.
C1_MissingInputAborts ==
    \A r \in Runs :
        (Requested(r) /\ (~path_exists(args[r].audio_path) \/ ~path_exists(args[r].image_path)))
        => /\ calls[r] = <<>>
           /\ mkdirs[r] = {}
           /\ DOMAIN wrote[r] = {}
           /\ save_dir[r] = NoPath
           /\ pc[r] \in {"validate", "exited"}

\* A run stopped by a missing image although its audio file exists.
C1_Witness ==
    \E r \in Runs :
        /\ Exited(r)
        /\ outcome[r] = "MissingInputFile"
        /\ path_exists(args[r].audio_path)
        /\ ~path_exists(args[r].image_path)

\* C2 as stated: a run that ends in MissingInputFile or in
\* ModelInitializationFailure ends with exit code zero, and a run in which a
\* pipeline stage raises exits non-zero.
C2_NonZeroOnlyForStageFailure ==
    \A r \in Runs :
        Exited(r) =>
            /\ outcome[r] \in {"MissingInputFile", "ModelInitializationFailure"}
                 => exit_code[r] = 0
            /\ outcome[r] = "PipelineStageFailure" => exit_code[r] /= 0

\* C2 as amended: the exit code is zero for MissingInputFile and for a
\* completed run, and non-zero whenever run_inference returned no result,
\* which covers ModelInitializationFailure as well as a stage that raised.
C2_ExitCodes ==
    \A r \in Runs :
        Exited(r) =>
            /\ outcome[r] = "MissingInputFile" => exit_code[r] = 0
            /\ outcome[r] = "ModelInitializationFailure" => exit_code[r] /= 0
            /\ outcome[r] = "PipelineStageFailure" => exit_code[r] /= 0
            /\ outcome[r] = "Done" => exit_code[r] = 0

\* A run that ended with the empty sentinel and a non-zero exit code.
C2_Witness ==
    \E r \in Runs :
        /\ Exited(r)
        /\ outcome[r] = "ModelInitializationFailure"
        /\ handles[r] = NoHandles
        /\ exit_code[r] = 1

\* C3: whenever the model library fails inside initialize_models, in any way,
\* initialize_models returns the all-empty sentinel to run_inference and
\* nothing is raised past it.
C3_InitFailureNeverEscapes ==
    \A r \in Runs :
        init_outcome[r] \notin {"pending", "ok"}
        => /\ handles[r] = NoHandles
           /\ outcome[r] = "ModelInitializationFailure"

\* C4: when initialize_models returns a tuple with an empty handle,
\* run_inference returns no result, calls no pipeline stage and asks for no
\* run directory.
C4_EmptyHandleStopsRun ==
    \A r \in Runs :
        (init_outcome[r] /= "pending" /\ ~initialize_models_raises(init_outcome[r])
            /\ \E i \in 1..5 : ~handles[r][i])
        => /\ returned[r] = NoResult
           /\ StageCalls(r) = <<>>
           /\ save_dir[r] = NoPath
           /\ RunDirs(r) = {}
           /\ video_path[r] = NoPath
           /\ Exited(r)

\* A run whose initialize_models returned the sentinel.
C4_Witness ==
    \E r \in Runs :
        /\ init_outcome[r] = "ImportError"
        /\ handles[r] = NoHandles
        /\ Exited(r)

\* C5: a run that ends in failure returns no result and leaves no rendered
\* video file of its own behind.
C5_FailedRunLeavesNoVideo ==
    \A r \in Runs :
        (Exited(r) /\ outcome[r] = "PipelineStageFailure")
        => /\ returned[r] = NoResult
           /\ video_path[r] \notin DOMAIN files

\* C6: a run whose run_inference returned a result has written the manifest,
\* with or without save_base64, and the manifest holds the request's audio
\* and image paths and the path generate_deploy returned; a run that ended
\* otherwise has written no manifest.
C6_ManifestOfSuccessfulRun ==
    \A r \in Runs :
        Exited(r) =>
            IF returned[r].present
            THEN /\ InfoFile(r) \in DOMAIN wrote[r]
                 /\ InfoFile(r) \in DOMAIN files
                 /\ video_path[r] /= NoPath
                 /\ calls[r][Len(calls[r])] = "generate_deploy"
                 /\ wrote[r][InfoFile(r)].video_path = video_path[r]
                 /\ wrote[r][InfoFile(r)].audio_path = args[r].audio_path
                 /\ wrote[r][InfoFile(r)].image_path = args[r].image_path
            ELSE InfoFile(r) \notin DOMAIN wrote[r]

\* Two completed runs, one with save_base64 and one without, each with its
\* manifest written.
C6_Witness ==
    \E r1, r2 \in Runs :
        /\ Exited(r1) /\ returned[r1].present /\ args[r1].save_base64
        /\ Exited(r2) /\ returned[r2].present /\ ~args[r2].save_base64
        /\ InfoFile(r1) \in DOMAIN wrote[r1]
        /\ InfoFile(r2) \in DOMAIN wrote[r2]

\* C7: two runs with the same output_dir whose run directories were named in
\* different seconds have one run directory each, distinct from the other's,
\* and neither writes a file the other has written.
C7_DistinctSecondsNeverOverwrite ==
    \A r1, r2 \in Runs :
        (r1 /= r2 /\ Stamped(r1) /\ Stamped(r2)
            /\ args[r1].output_dir = args[r2].output_dir /\ stamp[r1] /= stamp[r2])
        => /\ Cardinality(RunDirs(r1)) = 1
           /\ Cardinality(RunDirs(r2)) = 1
           /\ save_dir[r1] /= save_dir[r2]
           /\ DOMAIN wrote[r1] \cap DOMAIN wrote[r2] = {}

\* C8: a completed run with save_base64 has written the sidecar into its run
\* directory, the sidecar holds base64 of the bytes read from the rendered
\* video file, the result carries the same text, and decoding it gives those
\* bytes back; where no other run shares the run directory this is what the
\* files on disk hold.  A completed run without save_base64 writes no sidecar
\* and returns no payload.
C8_Base64Sidecar ==
    \A r \in Runs :
        (Exited(r) /\ returned[r].present) =>
            IF args[r].save_base64
            THEN /\ Sidecar(r) \in DOMAIN wrote[r]
                 /\ Sidecar(r) \in DOMAIN files
                 /\ wrote[r][Sidecar(r)] = b64encode(video_bytes[r])
                 /\ returned[r].has_base64
                 /\ returned[r].video_base64 = wrote[r][Sidecar(r)]
                 /\ b64decode(wrote[r][Sidecar(r)]) = video_bytes[r]
                 /\ (\A o \in Runs \ {r} : save_dir[o] /= save_dir[r])
                      => /\ video_bytes[r] = files[video_path[r]]
                         /\ files[Sidecar(r)] = b64encode(files[video_path[r]])
                         /\ b64decode(files[Sidecar(r)]) = files[video_path[r]]
            ELSE /\ Sidecar(r) \notin DOMAIN wrote[r]
                 /\ ~returned[r].has_base64
                 /\ returned[r].video_base64 = <<>>

\* A completed run with save_base64 whose video needs padding, alone in its
\* run directory.
C8_Witness ==
    \E r \in Runs :
        /\ Exited(r) /\ returned[r].present /\ args[r].save_base64
        /\ Len(video_bytes[r]) % 3 = 2
        /\ \A o \in Runs \ {r} : save_dir[o] /= save_dir[r]
        /\ files[Sidecar(r)] = b64encode(files[video_path[r]])

\* The state of the run in the terms of the run's state machine.
Phase(p, how) ==
    CASE p \in {"start", "validate"} -> 1                    \* Validating
      [] p = "initialize" -> 2                               \* Initializing
      [] p \in {"mk_save_dir", "preprocess"} -> 3            \* Preprocessing
      [] p \in {"get_data", "audio_to_coeff"} -> 4           \* AudioToCoeff
      [] p \in {"get_facerender_data", "generate_deploy"} -> 5   \* Rendering
      [] p \in {"read_video", "write_base64", "publish"} -> 6    \* Publishing
      [] p = "exited" /\ how = "Done" -> 7                   \* Done
      [] OTHER -> 8                                          \* Failed

\* The calls a run has made by the time it is in a phase.
CallsOfPhase(r) ==
    CASE pc[r] \in {"start", "validate", "initialize"} -> <<>>
      [] pc[r] \in {"mk_save_dir", "preprocess"} -> SubSeq(FullCalls, 1, 1)
      [] pc[r] = "get_data" -> SubSeq(FullCalls, 1, 2)
      [] pc[r] = "audio_to_coeff" -> SubSeq(FullCalls, 1, 3)
      [] pc[r] = "get_facerender_data" -> SubSeq(FullCalls, 1, 4)
      [] pc[r] = "generate_deploy" -> SubSeq(FullCalls, 1, 5)
      [] OTHER -> FullCalls

C9_Order ==
    \A r \in Runs :
        /\ IsPrefix(calls[r], FullCalls)
        /\ ~Exited(r) => calls[r] = CallsOfPhase(r)
        /\ (Exited(r) /\ outcome[r] = "Done") => calls[r] = FullCalls

C9_Step ==
    \A r \in Runs :
        LET before == Phase(pc[r], outcome[r])
            after == Phase(pc'[r], outcome'[r])
        IN  /\ after \in {before, before + 1, 8}
            /\ before = 8 => after = 8
            /\ Exited(r) => /\ pc'[r] = pc[r]
                            /\ calls'[r] = calls[r]
                            /\ outcome'[r] = outcome[r]
                            /\ wrote'[r] = wrote[r]
                            /\ mkdirs'[r] = mkdirs[r]
            /\ IsPrefix(calls[r], calls'[r])
            /\ Len(calls'[r]) <= Len(calls[r]) + 1

\* C9: every run moves through Validating, Initializing, Preprocessing,
\* AudioToCoeff, Rendering, Publishing, Done one state at a time or to
\* Failed; the model-library calls are made in the fixed order, each at most
\* once, none skipped or repeated; a run that is Done or Failed makes no
\* further call and changes no more.
C9_LinearStateMachine == [](C9_Order) /\ [][C9_Step]_vars

\* A run that went through every stage and is Done beside one that failed in
\* the middle of the pipeline.
C9_Witness ==
    \E r1, r2 \in Runs :
        /\ Exited(r1) /\ outcome[r1] = "Done" /\ calls[r1] = FullCalls
        /\ Exited(r2) /\ outcome[r2] = "PipelineStageFailure"
        /\ calls[r2] = SubSeq(FullCalls, 1, 4)

\* C10: two runs with the same output_dir that name their run directory in
\* the same second get the same run directory, its creation fails for
\* neither, and both go on inside it.
C10_SameSecondSharesDir ==
    \A r1, r2 \in Runs :
        (r1 /= r2 /\ Stamped(r1) /\ Stamped(r2)
            /\ args[r1].output_dir = args[r2].output_dir /\ stamp[r1] = stamp[r2])
        => /\ save_dir[r1] = save_dir[r2]
           /\ save_dir[r1] \in dirs
           /\ outcome[r1] /= "UncaughtException"
           /\ outcome[r2] /= "UncaughtException"
           /\ pc[r1] /= "mk_save_dir" /\ pc[r2] /= "mk_save_dir"

\* Two runs in one run directory, the video one of them rendered replaced by
\* the other's.
C10_Witness ==
    \E r1, r2 \in Runs :
        /\ r1 /= r2
        /\ Stamped(r1) /\ stamp[r1] = stamp[r2]
        /\ save_dir[r1] = save_dir[r2]
        /\ video_path[r1] /= NoPath
        /\ video_path[r1] = video_path[r2]
        /\ wrote[r1][video_path[r1]] /= files[video_path[r1]]
        /\ wrote[r2][video_path[r2]] = files[video_path[r2]]

====
